---- MODULE Spec2Model ----
(***************************************************************************)
(* Services of research-core: aggregation, comparison, coordination and    *)
(* normalization.                                                          *)
(*                                                                         *)
(* AggregationService (aggregation.service.ts) and ComparisonService       *)
(* (comparison.service.ts) are stateless: every operation is a function of *)
(* the list of normalized results it is handed.  Their part of the state   *)
(* is the list the caller holds (results), the last call made on the       *)
(* services (call) and what that call returned or threw (ret).             *)
(* NormalizationService is stateless too; a call of its normalizeOutput,   *)
(* which waits for the schema adapter, is kept in call and ret as well.    *)
(* CoordinationService keeps the runs it has started; its part of the      *)
(* state (coordVars) and its overlapping calls are described with its      *)
(* actions.                                                                *)
(*                                                                         *)
(* Numbers.  The services compute on IEEE doubles.  The model computes on  *)
(* exact rationals <<numerator, denominator>> in lowest terms.  The metric *)
(* values are dyadic (1/8, 1/4), so sums, differences and halvings are     *)
(* exact in doubles too, and the quotients by a list length are far enough *)
(* from each other and from the threshold 0.1 that rounding changes no     *)
(* comparison.  Math.sqrt is kept symbolic (Sqrt).  Where the rounding of  *)
(* a double decides (the sum and the mean of values such as 0.1), the      *)
(* statistics are computed on binary64 numbers with a 53-bit significand   *)
(* and round-to-nearest-even (DAdd, DDivInt, DLe).                         *)
(*                                                                         *)
(* Names.  Model ids, scenario ids and metric names are ordinary           *)
(* identifiers; none of them is a property name that a plain object        *)
(* inherits from Object.prototype, so `obj[name]` is undefined exactly     *)
(* when name is not an own key of obj.                                     *)
(***************************************************************************)
EXTENDS Integers, Sequences, FiniteSets, TLC

VARIABLES results, call, ret, now, runs, activeRuns, tasks, adapterCalls

coordVars == <<now, runs, activeRuns, tasks, adapterCalls>>

vars == <<results, call, ret, now, runs, activeRuns, tasks, adapterCalls>>

(***************************************************************************)
(* Bounds and input domains                                                *)
(***************************************************************************)
MaxAggResults == 2

MaxCmpResults == 3

ModelIds == {"A", "B"}

ScenarioIds == {"s1", "s2"}

MetricNames == {"acc", "lat"}

Values == {<<1, 8>>, <<1, 4>>}

MetricMaps == UNION {[S -> Values] : S \in SUBSET MetricNames}

NormalizedResultLegacy ==
  [modelId : ModelIds, scenarioId : ScenarioIds, metrics : MetricMaps]

AggResultLists ==
  UNION {[1..n -> NormalizedResultLegacy] : n \in 0..MaxAggResults}

CmpResultLists ==
  UNION {[1..n -> [modelId : ModelIds, scenarioId : {"s1"}, metrics : MetricMaps]] :
           n \in 0..MaxCmpResults}

(***************************************************************************)
(* Number arithmetic.  <<n, d>> with d > 0 is the number n/d in lowest     *)
(* terms; <<0, 0>> is NaN (the result of 0/0).                             *)
(***************************************************************************)
NaN == <<0, 0>>

Undefined == "undefined"

Abs(x) == IF x < 0 THEN -x ELSE x

RECURSIVE GCD(_, _)
GCD(a, b) == IF b = 0 THEN a ELSE GCD(b, a % b)

Rat(n, d) ==
  IF d = 0 THEN NaN
  ELSE LET g == GCD(Abs(n), d) IN <<n \div g, d \div g>>

RAdd(p, q) == Rat(p[1] * q[2] + q[1] * p[2], p[2] * q[2])

RSub(p, q) == Rat(p[1] * q[2] - q[1] * p[2], p[2] * q[2])

RMul(p, q) == Rat(p[1] * q[1], p[2] * q[2])

RDivInt(p, n) == Rat(p[1], p[2] * n)

RNeg(p) == <<-p[1], p[2]>>

RAbs(p) == <<Abs(p[1]), p[2]>>

RGt(p, q) == p[1] * q[2] > q[1] * p[2]

RLe(p, q) == p[2] # 0 /\ q[2] # 0 /\ p[1] * q[2] <= q[1] * p[2]

Zero == <<0, 1>>

Sqrt(p) == <<"sqrt", p>>

(***************************************************************************)
(* Array helpers                                                           *)
(***************************************************************************)
RECURSIVE SumSeq(_)
SumSeq(s) == IF s = <<>> THEN Zero ELSE RAdd(s[1], SumSeq(Tail(s)))

RECURSIVE Insert(_, _)
Insert(v, s) ==
  IF s = <<>> THEN <<v>>
  ELSE IF RLe(s[1], v) THEN <<s[1]>> \o Insert(v, Tail(s))
  ELSE <<v>> \o s

RECURSIVE SortAsc(_)
SortAsc(s) == IF s = <<>> THEN <<>> ELSE Insert(s[1], SortAsc(Tail(s)))

MetricValues_ZeroFilled(rs, metricName) ==
  [i \in 1..Len(rs) |->
     IF metricName \in DOMAIN rs[i].metrics THEN rs[i].metrics[metricName] ELSE Zero]

MetricValues(rs, metricName) ==
  LET carrying == SelectSeq(rs, LAMBDA r : metricName \in DOMAIN r.metrics)
  IN  [i \in 1..Len(carrying) |-> carrying[i].metrics[metricName]]

AllMetricNames(rs) == UNION {DOMAIN rs[i].metrics : i \in 1..Len(rs)}

Mean(values) == RDivInt(SumSeq(values), Len(values))

(***************************************************************************)
(* AggregationService                                                      *)
(***************************************************************************)
SpreadSort_InPlace(values) == [values |-> SortAsc(values), sorted |-> SortAsc(values)]

SpreadSort(values) == [values |-> values, sorted |-> SortAsc(values)]

calculateStats(values) ==
  LET n == Len(values)
      sorted == SpreadSort(values).sorted
      mean == Mean(values)
      median == IF n % 2 = 0
                THEN IF n = 0 THEN NaN
                     ELSE RDivInt(RAdd(sorted[n \div 2], sorted[n \div 2 + 1]), 2)
                ELSE sorted[n \div 2 + 1]
      sqDev == [i \in 1..n |-> RMul(RSub(values[i], mean), RSub(values[i], mean))]
      variance == RDivInt(SumSeq(sqDev), n)
  IN  [mean |-> mean, median |-> median, stdDev |-> Sqrt(variance),
       min |-> IF n = 0 THEN Undefined ELSE sorted[1],
       max |-> IF n = 0 THEN Undefined ELSE sorted[n]]

PresentMetrics_InEveryResult(rs) ==
  {m \in AllMetricNames(rs) : Len(MetricValues(rs, m)) = Len(rs)}

PresentMetrics(rs) ==
  {m \in AllMetricNames(rs) : Len(MetricValues(rs, m)) > 0}

SummaryCount_ValuesOfOneMetric(rs) ==
  IF AllMetricNames(rs) = {} THEN 0
  ELSE Len(MetricValues(rs, CHOOSE m \in AllMetricNames(rs) : TRUE))

SummaryCount(rs) == Len(rs)

calculateMetricsSummary(rs) ==
  IF Len(rs) = 0
  THEN [mean |-> <<>>, median |-> <<>>, stdDev |-> <<>>,
        min |-> <<>>, max |-> <<>>, count |-> 0]
  ELSE LET present == PresentMetrics(rs)
           stats == [m \in present |-> calculateStats(MetricValues(rs, m))]
       IN  [mean   |-> [m \in present |-> stats[m].mean],
            median |-> [m \in present |-> stats[m].median],
            stdDev |-> [m \in present |-> stats[m].stdDev],
            min    |-> [m \in present |-> stats[m].min],
            max    |-> [m \in present |-> stats[m].max],
            count  |-> SummaryCount(rs)]

KeyFns == {"modelId", "scenarioId"}

KeyOf(r, keyFn) == IF keyFn = "modelId" THEN r.modelId ELSE r.scenarioId

GroupPush_Overwrite(grouped, key, result) ==
  [k \in DOMAIN grouped \cup {key} |->
     IF k = key THEN <<result>> ELSE grouped[k]]

GroupPush(grouped, key, result) ==
  LET withKey == IF key \in DOMAIN grouped
                 THEN grouped
                 ELSE [k \in DOMAIN grouped \cup {key} |->
                         IF k = key THEN <<>> ELSE grouped[k]]
  IN  [withKey EXCEPT ![key] = Append(@, result)]

RECURSIVE groupByKey(_, _, _)
groupByKey(rs, keyFn, grouped) ==
  IF rs = <<>> THEN grouped
  ELSE groupByKey(Tail(rs), keyFn, GroupPush(grouped, KeyOf(rs[1], keyFn), rs[1]))

groupAndSummarize(rs, keyFn) ==
  LET grouped == groupByKey(rs, keyFn, <<>>)
  IN  [key \in DOMAIN grouped |-> calculateMetricsSummary(grouped[key])]

calculateAggregatedMetrics(rs) ==
  [byModel    |-> groupAndSummarize(rs, "modelId"),
   byScenario |-> groupAndSummarize(rs, "scenarioId"),
   overall    |-> calculateMetricsSummary(rs)]

Return(v) == [threw |-> FALSE, message |-> "", value |-> v]

Throw(msg) == [threw |-> TRUE, message |-> msg, value |-> Undefined]

ErrEmptyInput == "Cannot aggregate empty results"

ErrMetricNotFound(metricName) == "No values found for metric: " \o metricName

aggregateResults_NoEmptyCheck(rs) ==
  Return([aggregatedMetrics |-> calculateAggregatedMetrics(rs),
          resultCount |-> Len(rs)])

aggregateResults(rs) ==
  IF Len(rs) = 0
  THEN Throw(ErrEmptyInput)
  ELSE Return([aggregatedMetrics |-> calculateAggregatedMetrics(rs),
               resultCount |-> Len(rs)])

calculateOverall_ThrowsOnEmpty(rs) ==
  IF Len(rs) = 0
  THEN Throw(ErrEmptyInput)
  ELSE Return(calculateMetricsSummary(rs))

calculateOverall(rs) == Return(calculateMetricsSummary(rs))

getMetricSummary(rs, metricName) ==
  LET values == MetricValues(rs, metricName)
  IN  IF Len(values) = 0
      THEN Throw(ErrMetricNotFound(metricName))
      ELSE Return(calculateStats(values))

(***************************************************************************)
(* ComparisonService                                                       *)
(***************************************************************************)
SignificanceThreshold == <<1, 10>>

ResultsOfModel(rs, modelId) == SelectSeq(rs, LAMBDA r : r.modelId = modelId)

EmittedMetrics_EitherSide(resultsA, resultsB) ==
  {m \in AllMetricNames(resultsA \o resultsB) :
     Len(MetricValues(resultsA, m)) > 0 \/ Len(MetricValues(resultsB, m)) > 0}

EmittedMetrics_OnlyA(resultsA, resultsB) ==
  {m \in AllMetricNames(resultsA \o resultsB) :
     Len(MetricValues(resultsA, m)) > 0}

EmittedMetrics(resultsA, resultsB) ==
  {m \in AllMetricNames(resultsA \o resultsB) :
     Len(MetricValues(resultsA, m)) > 0 /\ Len(MetricValues(resultsB, m)) > 0}

WinsA(resultsA, resultsB) ==
  Cardinality({m \in EmittedMetrics(resultsA, resultsB) :
     RGt(Mean(MetricValues(resultsA, m)), Mean(MetricValues(resultsB, m)))})

WinsB_CountsEqual(resultsA, resultsB) ==
  Cardinality({m \in EmittedMetrics(resultsA, resultsB) :
     ~RGt(Mean(MetricValues(resultsA, m)), Mean(MetricValues(resultsB, m)))})

WinsB(resultsA, resultsB) ==
  Cardinality({m \in EmittedMetrics(resultsA, resultsB) :
     /\ ~RGt(Mean(MetricValues(resultsA, m)), Mean(MetricValues(resultsB, m)))
     /\ RGt(Mean(MetricValues(resultsB, m)), Mean(MetricValues(resultsA, m)))})

Winner_TieGoesToA(winsA, winsB, modelA, modelB) ==
  IF winsA >= winsB THEN modelA ELSE modelB

Winner(winsA, winsB, modelA, modelB) ==
  IF winsA > winsB THEN modelA
  ELSE IF winsB > winsA THEN modelB
  ELSE Undefined

IsSignificant_AtThreshold(meanA, meanB) ==
  ~RGt(SignificanceThreshold, RAbs(RSub(meanA, meanB)))

IsSignificant(meanA, meanB) ==
  RGt(RAbs(RSub(meanA, meanB)), SignificanceThreshold)

compareModels(rs, modelA, modelB) ==
  LET resultsA == ResultsOfModel(rs, modelA)
      resultsB == ResultsOfModel(rs, modelB)
      emitted == EmittedMetrics(resultsA, resultsB)
      meanA == [m \in emitted |-> Mean(MetricValues(resultsA, m))]
      meanB == [m \in emitted |-> Mean(MetricValues(resultsB, m))]
  IN  [modelA |-> modelA,
       modelB |-> modelB,
       metricDifferences |-> [m \in emitted |-> RSub(meanA[m], meanB[m])],
       statisticalSignificance |->
         [m \in emitted |-> IsSignificant(meanA[m], meanB[m])],
       winner |-> Winner(WinsA(resultsA, resultsB), WinsB(resultsA, resultsB),
                         modelA, modelB)]

(***************************************************************************)
(* State machine.  The services keep no state between calls, so a          *)
(* behaviour is one call made on the list the caller holds.                *)
(***************************************************************************)
Idle == call.op = "none"

InitCoordination ==
  /\ now = 0
  /\ runs = << >>
  /\ activeRuns = << >>
  /\ tasks = << >>
  /\ adapterCalls = << >>

InitCall ==
  /\ call = [op |-> "none"]
  /\ ret = Return(Undefined)
  /\ InitCoordination

Init ==
  /\ results \in AggResultLists
  /\ InitCall

InitCmp ==
  /\ results \in CmpResultLists
  /\ InitCall

AggregateResults ==
  /\ Idle
  /\ call' = [op |-> "aggregateResults"]
  /\ ret' = aggregateResults(results)
  /\ UNCHANGED <<results, coordVars>>

CalculateOverall ==
  /\ Idle
  /\ call' = [op |-> "calculateOverall"]
  /\ ret' = calculateOverall(results)
  /\ UNCHANGED <<results, coordVars>>

GroupAndSummarize ==
  /\ Idle
  /\ \E keyFn \in KeyFns :
       /\ call' = [op |-> "groupAndSummarize", keyFn |-> keyFn]
       /\ ret' = Return(groupAndSummarize(results, keyFn))
  /\ UNCHANGED <<results, coordVars>>

GetMetricSummary ==
  /\ Idle
  /\ \E metricName \in MetricNames :
       /\ call' = [op |-> "getMetricSummary", metricName |-> metricName]
       /\ ret' = getMetricSummary(results, metricName)
  /\ UNCHANGED <<results, coordVars>>

CompareModels ==
  /\ Idle
  /\ \E modelA \in ModelIds, modelB \in ModelIds :
       /\ call' = [op |-> "compareModels", modelA |-> modelA, modelB |-> modelB]
       /\ ret' = Return(compareModels(results, modelA, modelB))
  /\ UNCHANGED <<results, coordVars>>

Next ==
  \/ AggregateResults
  \/ CalculateOverall
  \/ GroupAndSummarize
  \/ GetMetricSummary

NextCmp == CompareModels

Spec == Init /\ [][Next]_vars

SpecCmp == InitCmp /\ [][NextCmp]_vars

(***************************************************************************)
(* Vocabulary of the properties: positions of the list, and sums and means *)
(* taken over sets of positions.                                           *)
(***************************************************************************)
Carriers(rs, m) == {i \in 1..Len(rs) : m \in DOMAIN rs[i].metrics}

CarriersOf(rs, modelId, m) == {i \in Carriers(rs, m) : rs[i].modelId = modelId}

PositionsWithKey(rs, keyFn, key) == {i \in 1..Len(rs) : KeyOf(rs[i], keyFn) = key}

RECURSIVE SumAt(_, _, _)
SumAt(rs, m, I) ==
  IF I = {} THEN Zero
  ELSE LET i == CHOOSE j \in I : TRUE
       IN  RAdd(rs[i].metrics[m], SumAt(rs, m, I \ {i}))

RECURSIVE SumSqAt(_, _, _)
SumSqAt(rs, m, I) ==
  IF I = {} THEN Zero
  ELSE LET i == CHOOSE j \in I : TRUE
       IN  RAdd(RMul(rs[i].metrics[m], rs[i].metrics[m]), SumSqAt(rs, m, I \ {i}))

MeanAt(rs, m, I) == RDivInt(SumAt(rs, m, I), Cardinality(I))

RECURSIVE SumCounts(_, _)
SumCounts(summaries, K) ==
  IF K = {} THEN 0
  ELSE LET k == CHOOSE x \in K : TRUE
       IN  summaries[k].count + SumCounts(summaries, K \ {k})

SummaryMapKeys(s) ==
  {DOMAIN s.mean, DOMAIN s.median, DOMAIN s.stdDev, DOMAIN s.min, DOMAIN s.max}

Returned(op) == call.op = op /\ ~ret.threw

(***************************************************************************)
(* C1: for every non-empty list of results, the summary of the list (the   *)
(* value of calculateOverall, and `overall` of aggregateResults) has count *)
(* equal to the length of the list, also when a metric is carried by only  *)
(* some of the results.                                                    *)
(***************************************************************************)
C1_SummaryCountIsLength ==
  Len(results) > 0 =>
    /\ call.op = "calculateOverall" =>
         ~ret.threw /\ ret.value.count = Len(results)
    /\ call.op = "aggregateResults" =>
         ~ret.threw /\ ret.value.aggregatedMetrics.overall.count = Len(results)

C1_Witness ==
  /\ Returned("calculateOverall")
  /\ Len(results) = 2
  /\ \E m \in AllMetricNames(results) : Cardinality(Carriers(results, m)) = 1
  /\ ret.value.count = 2

(***************************************************************************)
(* C2: groupAndSummarize creates exactly one group per key that some       *)
(* result produces, the summary of a key is the summary of exactly the     *)
(* results having that key (so no group is empty and every result is in    *)
(* the group of its key and in no other), and the counts of the groups add *)
(* up to the length of the list.                                           *)
(***************************************************************************)
C2_GroupsPartitionResults ==
  call.op = "groupAndSummarize" =>
    /\ ~ret.threw
    /\ LET keyFn == call.keyFn
           summaries == ret.value
       IN  /\ DOMAIN summaries = {KeyOf(results[i], keyFn) : i \in 1..Len(results)}
           /\ \A key \in DOMAIN summaries :
                /\ summaries[key].count =
                     Cardinality(PositionsWithKey(results, keyFn, key))
                /\ summaries[key].count > 0
                /\ summaries[key] =
                     calculateMetricsSummary(
                       SelectSeq(results, LAMBDA r : KeyOf(r, keyFn) = key))
           /\ SumCounts(summaries, DOMAIN summaries) = Len(results)

C2_Witness ==
  /\ Returned("groupAndSummarize")
  /\ call.keyFn = "scenarioId"
  /\ Len(results) = 2
  /\ results[1].scenarioId = results[2].scenarioId
  /\ results[1].modelId # results[2].modelId
  /\ Cardinality(DOMAIN ret.value) = 1

(***************************************************************************)
(* C3: in every summary produced for a group of results the five maps have *)
(* the same key set, which is the set of metric names carried by at least  *)
(* one result of the group; the computation does not fail when results     *)
(* carry different metric names.                                           *)
(***************************************************************************)
C3_MapsKeyedByCarriedMetrics ==
  /\ call.op = "calculateOverall" =>
       /\ ~ret.threw
       /\ \A keys \in SummaryMapKeys(ret.value) :
            keys = {m \in MetricNames : Carriers(results, m) # {}}
  /\ call.op = "groupAndSummarize" =>
       /\ ~ret.threw
       /\ \A key \in DOMAIN ret.value :
            \A keys \in SummaryMapKeys(ret.value[key]) :
              keys =
                {m \in MetricNames :
                   Carriers(results, m) \cap
                     PositionsWithKey(results, call.keyFn, key) # {}}

C3_Witness ==
  /\ Returned("groupAndSummarize")
  /\ call.keyFn = "modelId"
  /\ Len(results) = 2
  /\ results[1].modelId = results[2].modelId
  /\ DOMAIN results[1].metrics = {"acc"}
  /\ DOMAIN results[2].metrics = {"lat"}
  /\ DOMAIN ret.value[results[1].modelId].mean = {"acc", "lat"}

(***************************************************************************)
(* C4: aggregateResults throws "Cannot aggregate empty results" and        *)
(* returns nothing for the empty list; for a non-empty list it returns     *)
(* byModel, byScenario and overall, and resultCount equal to the length of *)
(* the list.                                                               *)
(***************************************************************************)
C4_AggregateRejectsEmpty ==
  call.op = "aggregateResults" =>
    IF Len(results) = 0
    THEN ret.threw /\ ret.message = ErrEmptyInput /\ ret.value = Undefined
    ELSE /\ ~ret.threw
         /\ DOMAIN ret.value.aggregatedMetrics = {"byModel", "byScenario", "overall"}
         /\ ret.value.resultCount = Len(results)

C4_Witness ==
  /\ call.op = "aggregateResults"
  /\ Len(results) = 0
  /\ ret.threw

C6_MetricSummaryOverCarriedValues ==
  call.op = "getMetricSummary" =>
    LET m == call.metricName
        I == Carriers(results, m)
        n == Cardinality(I)
        V(i) == results[i].metrics[m]
    IN  IF I = {}
        THEN ret.threw /\ ret.message = ErrMetricNotFound(m)
        ELSE /\ ~ret.threw
             /\ LET st == ret.value
                IN  /\ st.mean = MeanAt(results, m, I)
                    /\ \E i \in I : st.min = V(i)
                    /\ \A i \in I : RLe(st.min, V(i))
                    /\ \E i \in I : st.max = V(i)
                    /\ \A i \in I : RLe(V(i), st.max)
                    /\ 2 * Cardinality({i \in I : RLe(V(i), st.median)}) >= n
                    /\ 2 * Cardinality({i \in I : RLe(st.median, V(i))}) >= n
                    /\ \E i, j \in I : st.median = RDivInt(RAdd(V(i), V(j)), 2)
                    /\ st.stdDev =
                         Sqrt(RSub(RDivInt(SumSqAt(results, m, I), n),
                                   RMul(st.mean, st.mean)))

C6_Witness ==
  /\ Returned("getMetricSummary")
  /\ Len(results) = 2
  /\ Cardinality(Carriers(results, call.metricName)) = 1
  /\ ret.value.mean = results[CHOOSE i \in Carriers(results, call.metricName) : TRUE]
                        .metrics[call.metricName]

(***************************************************************************)
(* C7: compareModels(results, A, B) does not fail; a metric name is a key  *)
(* of metricDifferences if and only if some result of A and some result of *)
(* B carry it, and its value is the mean of A's values of the metric minus *)
(* the mean of B's values.                                                 *)
(***************************************************************************)
C7_DifferencesOnSharedMetrics ==
  call.op = "compareModels" =>
    /\ ~ret.threw
    /\ LET diffs == ret.value.metricDifferences
           IA(m) == CarriersOf(results, call.modelA, m)
           IB(m) == CarriersOf(results, call.modelB, m)
       IN  /\ \A m \in MetricNames :
                m \in DOMAIN diffs <=> (IA(m) # {} /\ IB(m) # {})
           /\ \A m \in DOMAIN diffs :
                diffs[m] = RSub(MeanAt(results, m, IA(m)), MeanAt(results, m, IB(m)))

C7_Witness ==
  /\ Returned("compareModels")
  /\ call.modelA = "A" /\ call.modelB = "B"
  /\ CarriersOf(results, "A", "lat") # {}
  /\ CarriersOf(results, "B", "lat") = {}
  /\ Cardinality(CarriersOf(results, "A", "acc")) = 2
  /\ Cardinality(CarriersOf(results, "B", "acc")) = 1
  /\ DOMAIN ret.value.metricDifferences = {"acc"}

(***************************************************************************)
(* C8 as claimed: the metric set of the comparison is the union of the     *)
(* metric names observed across the results of model A and of model B.     *)
(***************************************************************************)
C8_MetricSetIsUnion ==
  call.op = "compareModels" =>
    DOMAIN ret.value.metricDifferences =
      AllMetricNames(ResultsOfModel(results, call.modelA))
        \cup AllMetricNames(ResultsOfModel(results, call.modelB))

(***************************************************************************)
(* C8 amended: the metric set of the comparison (the keys of               *)
(* metricDifferences and of statisticalSignificance) is the intersection   *)
(* of the metric names observed across the results of model A with those   *)
(* observed across the results of model B.                                 *)
(***************************************************************************)
C8_MetricSetIsIntersection ==
  call.op = "compareModels" =>
    LET namesA == AllMetricNames(ResultsOfModel(results, call.modelA))
        namesB == AllMetricNames(ResultsOfModel(results, call.modelB))
    IN  /\ DOMAIN ret.value.metricDifferences = namesA \cap namesB
        /\ DOMAIN ret.value.statisticalSignificance = namesA \cap namesB

C8_Witness ==
  /\ Returned("compareModels")
  /\ call.modelA # call.modelB
  /\ AllMetricNames(ResultsOfModel(results, call.modelA)) = {"acc", "lat"}
  /\ AllMetricNames(ResultsOfModel(results, call.modelB)) = {"lat"}
  /\ DOMAIN ret.value.metricDifferences = {"lat"}

(***************************************************************************)
(* C9: compareModels(results, A, B) and compareModels(results, B, A) have  *)
(* the same metric keys, negated metricDifferences, the same               *)
(* statisticalSignificance, and name the same model as winner (or both     *)
(* name none).                                                             *)
(***************************************************************************)
C9_CompareModelsSymmetry ==
  call.op = "compareModels" =>
    LET ab == ret.value
        ba == compareModels(results, call.modelB, call.modelA)
    IN  /\ ba.modelA = ab.modelB /\ ba.modelB = ab.modelA
        /\ DOMAIN ba.metricDifferences = DOMAIN ab.metricDifferences
        /\ \A m \in DOMAIN ab.metricDifferences :
             ba.metricDifferences[m] = RNeg(ab.metricDifferences[m])
        /\ ba.statisticalSignificance = ab.statisticalSignificance
        /\ ba.winner = ab.winner

C9_Witness ==
  /\ Returned("compareModels")
  /\ call.modelA = "A" /\ call.modelB = "B"
  /\ ret.value.winner = "B"
  /\ compareModels(results, "B", "A").winner = "B"
  /\ \E m \in DOMAIN ret.value.metricDifferences :
       ret.value.metricDifferences[m][1] < 0

(***************************************************************************)
(* C10: each emitted metric gives one point to A when A's mean is greater, *)
(* one to B when B's mean is greater and none when the means are equal;    *)
(* the winner is modelA with strictly more points, modelB with strictly    *)
(* more points, and absent when the points are equal.                      *)
(***************************************************************************)
C10_WinnerByPoints ==
  call.op = "compareModels" =>
    LET emitted == DOMAIN ret.value.metricDifferences
        mA(m) == MeanAt(results, m, CarriersOf(results, call.modelA, m))
        mB(m) == MeanAt(results, m, CarriersOf(results, call.modelB, m))
        pointsA == Cardinality({m \in emitted : RGt(mA(m), mB(m))})
        pointsB == Cardinality({m \in emitted : RGt(mB(m), mA(m))})
    IN  /\ pointsA > pointsB => ret.value.winner = call.modelA
        /\ pointsB > pointsA => ret.value.winner = call.modelB
        /\ pointsA = pointsB => ret.value.winner = Undefined

C10_Witness ==
  /\ Returned("compareModels")
  /\ call.modelA = "A" /\ call.modelB = "B"
  /\ DOMAIN ret.value.metricDifferences = {"acc", "lat"}
  /\ ret.value.metricDifferences["acc"][1] > 0
  /\ ret.value.metricDifferences["lat"][1] < 0
  /\ ret.value.winner = Undefined

(***************************************************************************)
(* ComparisonService: pairwise and baseline comparisons                    *)
(***************************************************************************)
MaxPairResults == 3

MaxModelIds == 3

PairModelIds == {"A", "B", "C"}

PairResultLists ==
  UNION {[1..n -> [modelId : PairModelIds, scenarioId : {"s1"},
                   metrics : [{"acc"} -> Values]]] : n \in 0..MaxPairResults}

ModelIdLists ==
  {ids \in UNION {[1..n -> PairModelIds] : n \in 0..MaxModelIds} :
     \/ \A i, j \in 1..Len(ids) : i # j => ids[i] # ids[j]
     \/ Len(ids) = 2}

MethodologyPairwise == "pairwise-statistical-analysis"

MethodologyBaseline == "baseline-comparison"

ErrCompareEmpty == "Cannot compare empty results"

ErrTooFewModels == "Must provide at least 2 models to compare"

ErrBaselineNotFound(baselineModelId) ==
  "Baseline model not found in results: " \o baselineModelId

Includes(seq, x) == \E i \in 1..Len(seq) : seq[i] = x

InnerStart_FromI(i) == i

InnerStart(i) == i + 1

RECURSIVE PairLoop(_, _, _, _, _)
PairLoop(rs, modelIds, i, j, comparisons) ==
  IF i > Len(modelIds) THEN comparisons
  ELSE IF j > Len(modelIds)
       THEN PairLoop(rs, modelIds, i + 1, InnerStart(i + 1), comparisons)
       ELSE PairLoop(rs, modelIds, i, j + 1,
                     Append(comparisons, compareModels(rs, modelIds[i], modelIds[j])))

generatePairwiseComparisons(rs, modelIds) ==
  PairLoop(rs, modelIds, 1, InnerStart(1), <<>>)

comparePairwise(rs, modelIds) ==
  Return([comparisons |-> generatePairwiseComparisons(rs, modelIds),
          methodology |-> MethodologyPairwise])

FilterToModels_FirstOnly(rs, modelIds) ==
  SelectSeq(rs, LAMBDA r : r.modelId = modelIds[1])

FilterToModels(rs, modelIds) ==
  SelectSeq(rs, LAMBDA r : Includes(modelIds, r.modelId))

compareResults(rs, modelIds) ==
  IF Len(rs) = 0 THEN Throw(ErrCompareEmpty)
  ELSE IF Len(modelIds) < 2 THEN Throw(ErrTooFewModels)
  ELSE Return([comparisons |->
                 generatePairwiseComparisons(FilterToModels(rs, modelIds), modelIds),
               methodology |-> MethodologyPairwise])

RECURSIVE DistinctInOrder(_, _)
DistinctInOrder(seq, seen) ==
  IF seq = <<>> THEN seen
  ELSE DistinctInOrder(Tail(seq),
                       IF Includes(seen, seq[1]) THEN seen ELSE Append(seen, seq[1]))

AllModelIds(rs) == DistinctInOrder([i \in 1..Len(rs) |-> rs[i].modelId], <<>>)

OtherModels_KeepsBaseline(allModelIds, baselineModelId) == allModelIds

OtherModels(allModelIds, baselineModelId) ==
  SelectSeq(allModelIds, LAMBDA id : id # baselineModelId)

compareToBaseline_NoCheck(rs, baselineModelId) ==
  LET otherModels == OtherModels(AllModelIds(rs), baselineModelId)
  IN  Return([comparisons |->
                [k \in 1..Len(otherModels) |->
                   compareModels(rs, baselineModelId, otherModels[k])],
              methodology |-> MethodologyBaseline])

compareToBaseline(rs, baselineModelId) ==
  LET allModelIds == AllModelIds(rs)
      otherModels == OtherModels(allModelIds, baselineModelId)
  IN  IF ~Includes(allModelIds, baselineModelId)
      THEN Throw(ErrBaselineNotFound(baselineModelId))
      ELSE Return([comparisons |->
                     [k \in 1..Len(otherModels) |->
                        compareModels(rs, baselineModelId, otherModels[k])],
                   methodology |-> MethodologyBaseline])

InitPair ==
  /\ results \in PairResultLists
  /\ InitCall

ComparePairwise ==
  /\ Idle
  /\ \E modelIds \in ModelIdLists :
       /\ call' = [op |-> "comparePairwise", modelIds |-> modelIds]
       /\ ret' = comparePairwise(results, modelIds)
  /\ UNCHANGED <<results, coordVars>>

CompareResults ==
  /\ Idle
  /\ \E modelIds \in ModelIdLists :
       /\ call' = [op |-> "compareResults", modelIds |-> modelIds]
       /\ ret' = compareResults(results, modelIds)
  /\ UNCHANGED <<results, coordVars>>

CompareToBaseline ==
  /\ Idle
  /\ \E baselineModelId \in PairModelIds :
       /\ call' = [op |-> "compareToBaseline", baselineModelId |-> baselineModelId]
       /\ ret' = compareToBaseline(results, baselineModelId)
  /\ UNCHANGED <<results, coordVars>>

NextPair ==
  \/ ComparePairwise
  \/ CompareResults
  \/ CompareToBaseline

SpecPair == InitPair /\ [][NextPair]_vars

(***************************************************************************)
(* C11: comparePairwise with n model ids returns n(n-1)/2 comparisons, one *)
(* per index pair i < j, ordered by i and then by j, and the comparison of *)
(* the pair (i, j) has modelA = modelIds[i] and modelB = modelIds[j].      *)
(***************************************************************************)
PairRank(n, i, j) == (i - 1) * n - ((i - 1) * i) \div 2 + (j - i)

C11_PairwiseIndexOrder ==
  call.op = "comparePairwise" =>
    /\ ~ret.threw
    /\ LET ids == call.modelIds
           n == Len(ids)
           cs == ret.value.comparisons
       IN  /\ 2 * Len(cs) = n * (n - 1)
           /\ \A i \in 1..n : \A j \in (i + 1)..n :
                /\ cs[PairRank(n, i, j)].modelA = ids[i]
                /\ cs[PairRank(n, i, j)].modelB = ids[j]
                /\ cs[PairRank(n, i, j)] = compareModels(results, ids[i], ids[j])

C11_Witness ==
  /\ Returned("comparePairwise")
  /\ call.modelIds = <<"B", "A", "C">>
  /\ Len(results) = 3
  /\ Len(ret.value.comparisons) = 3
  /\ ret.value.comparisons[2].modelA = "B"
  /\ ret.value.comparisons[2].modelB = "C"
  /\ ret.value.comparisons[3].modelA = "A"

(***************************************************************************)
(* C12: compareToBaseline throws "Baseline model not found in results" and *)
(* returns no comparisons whenever no result has the baseline model id,    *)
(* the empty list included.                                                *)
(***************************************************************************)
C12_BaselineNotFound ==
  (/\ call.op = "compareToBaseline"
   /\ \A i \in 1..Len(results) : results[i].modelId # call.baselineModelId)
  => /\ ret.threw
     /\ ret.message = ErrBaselineNotFound(call.baselineModelId)
     /\ ret.value = Undefined

C12_Witness ==
  /\ call.op = "compareToBaseline"
  /\ Len(results) = 2
  /\ \A i \in 1..Len(results) : results[i].modelId # call.baselineModelId
  /\ ret.threw

(***************************************************************************)
(* C13: when some result has the baseline model id, compareToBaseline      *)
(* returns one comparison per distinct other model id of the results, in   *)
(* the order of first appearance of those ids, each with modelA the        *)
(* baseline and modelB the other model; the baseline is never modelB.      *)
(***************************************************************************)
FirstAt(rs, id) == CHOOSE i \in 1..Len(rs) :
                     rs[i].modelId = id /\ \A j \in 1..(i - 1) : rs[j].modelId # id

C13_BaselineComparisons ==
  (/\ call.op = "compareToBaseline"
   /\ \E i \in 1..Len(results) : results[i].modelId = call.baselineModelId)
  => /\ ~ret.threw
     /\ LET cs == ret.value.comparisons
            base == call.baselineModelId
            others == {results[i].modelId : i \in 1..Len(results)} \ {base}
        IN  /\ Len(cs) = Cardinality(others)
            /\ {cs[k].modelB : k \in 1..Len(cs)} = others
            /\ \A k \in 1..Len(cs) :
                 /\ cs[k].modelA = base
                 /\ cs[k].modelB # base
                 /\ cs[k] = compareModels(results, base, cs[k].modelB)
            /\ \A k, l \in 1..Len(cs) :
                 k < l => FirstAt(results, cs[k].modelB) < FirstAt(results, cs[l].modelB)

C13_Witness ==
  /\ Returned("compareToBaseline")
  /\ call.baselineModelId = "B"
  /\ Len(results) = 3
  /\ results[1].modelId = "C"
  /\ results[2].modelId = "B"
  /\ results[3].modelId = "A"
  /\ Len(ret.value.comparisons) = 2
  /\ ret.value.comparisons[1].modelB = "C"
  /\ ret.value.comparisons[2].modelB = "A"

(***************************************************************************)
(* C19: the value of compareModels(results, A, B) is its value on the      *)
(* results of A and B alone; and for a non-empty list and at least two     *)
(* model ids, compareResults returns what comparePairwise returns on the   *)
(* same arguments.                                                         *)
(***************************************************************************)
C19_OtherModelsIgnored ==
  /\ call.op = "comparePairwise" =>
       \A k \in 1..Len(ret.value.comparisons) :
         LET c == ret.value.comparisons[k]
             own == SelectSeq(results,
                              LAMBDA r : r.modelId = c.modelA \/ r.modelId = c.modelB)
         IN  c = compareModels(own, c.modelA, c.modelB)
  /\ (call.op = "compareResults" /\ Len(results) > 0 /\ Len(call.modelIds) >= 2) =>
       /\ ~ret.threw
       /\ ret = comparePairwise(results, call.modelIds)

C19_Witness ==
  /\ Returned("compareResults")
  /\ call.modelIds = <<"A", "B">>
  /\ Len(results) = 3
  /\ {results[i].modelId : i \in 1..3} = {"A", "B", "C"}
  /\ Len(ret.value.comparisons) = 1
  /\ "acc" \in DOMAIN ret.value.comparisons[1].metricDifferences

(***************************************************************************)
(* ComparisonService: ranking.  modelMetrics is a plain object, so         *)
(* Object.entries lists its integer-like keys first, in ascending numeric  *)
(* order, and the other keys after them in the order of their creation.    *)
(* The model ids of this part therefore include an integer-like one.       *)
(***************************************************************************)
MaxRankResults == 3

RankModelIds == {"A", "B", "1"}

ArrayIndexValue == [id \in {"1"} |-> 1]

RankMetricMaps == [{"acc"} -> Values] \cup [{"lat"} -> {<<1, 4>>}]

RankResultLists ==
  UNION {[1..n -> [modelId : RankModelIds, scenarioId : {"s1"},
                   metrics : RankMetricMaps]] : n \in 0..MaxRankResults}

IsArrayIndex(key) == key \in DOMAIN ArrayIndexValue

RECURSIVE InsertIndexKey(_, _)
InsertIndexKey(key, keys) ==
  IF keys = <<>> THEN <<key>>
  ELSE IF ArrayIndexValue[key] < ArrayIndexValue[keys[1]] THEN <<key>> \o keys
  ELSE <<keys[1]>> \o InsertIndexKey(key, Tail(keys))

RECURSIVE SortIndexKeys(_)
SortIndexKeys(keys) ==
  IF keys = <<>> THEN <<>> ELSE InsertIndexKey(keys[1], SortIndexKeys(Tail(keys)))

OwnKeys(createdKeys) ==
  SortIndexKeys(SelectSeq(createdKeys, IsArrayIndex))
    \o SelectSeq(createdKeys, LAMBDA key : ~IsArrayIndex(key))

ModelsWithMetric(rs, metricName) ==
  AllModelIds(SelectSeq(rs, LAMBDA r : metricName \in DOMAIN r.metrics))

ModelAverages(rs, metricName) ==
  LET keys == OwnKeys(ModelsWithMetric(rs, metricName))
  IN  [k \in 1..Len(keys) |->
         [modelId |-> keys[k],
          mean |-> Mean(MetricValues(ResultsOfModel(rs, keys[k]), metricName))]]

RankBefore_Ascending(a, b) == RGt(b.mean, a.mean)

RankBefore(a, b) == RGt(a.mean, b.mean)

RECURSIVE InsertRanked(_, _)
InsertRanked(e, sorted) ==
  IF sorted = <<>> THEN <<e>>
  ELSE IF RankBefore(e, sorted[1]) THEN <<e>> \o sorted
  ELSE <<sorted[1]>> \o InsertRanked(e, Tail(sorted))

RECURSIVE StableSort(_, _)
StableSort(entries, sorted) ==
  IF entries = <<>> THEN sorted
  ELSE StableSort(Tail(entries), InsertRanked(entries[1], sorted))

SortByMean_NoSort(entries) == entries

SortByMean(entries) == StableSort(entries, <<>>)

rankByMetric(rs, metricName) ==
  LET modelAverages == SortByMean(ModelAverages(rs, metricName))
  IN  Return([k \in 1..Len(modelAverages) |-> modelAverages[k].modelId])

InitRank ==
  /\ results \in RankResultLists
  /\ InitCall

RankByMetric ==
  /\ Idle
  /\ \E metricName \in MetricNames :
       /\ call' = [op |-> "rankByMetric", metricName |-> metricName]
       /\ ret' = rankByMetric(results, metricName)
  /\ UNCHANGED <<results, coordVars>>

NextRank == RankByMetric

SpecRank == InitRank /\ [][NextRank]_vars

ModelMean(rs, modelId, m) == MeanAt(rs, m, CarriersOf(rs, modelId, m))

FirstCarrier(rs, modelId, m) ==
  CHOOSE i \in CarriersOf(rs, modelId, m) :
    \A j \in CarriersOf(rs, modelId, m) : i <= j

PositionIn(seq, x) == CHOOSE k \in 1..Len(seq) : seq[k] = x

(***************************************************************************)
(* C14: rankByMetric returns every model id that has a value for the       *)
(* metric exactly once, returns no model that has none, and orders the ids *)
(* by non-increasing mean of the metric.                                   *)
(***************************************************************************)
C14_RankingByDescendingMean ==
  call.op = "rankByMetric" =>
    /\ ~ret.threw
    /\ LET m == call.metricName
           ranking == ret.value
       IN  /\ {ranking[k] : k \in 1..Len(ranking)} =
                {results[i].modelId : i \in Carriers(results, m)}
           /\ \A k, l \in 1..Len(ranking) : k # l => ranking[k] # ranking[l]
           /\ \A k, l \in 1..Len(ranking) :
                k < l => ~RGt(ModelMean(results, ranking[l], m),
                              ModelMean(results, ranking[k], m))

C14_Witness ==
  /\ Returned("rankByMetric")
  /\ call.metricName = "acc"
  /\ Len(results) = 3
  /\ results[1].modelId = "A" /\ results[1].metrics = [acc |-> <<1, 8>>]
  /\ results[2].modelId = "B" /\ results[2].metrics = [acc |-> <<1, 4>>]
  /\ "1" \in {results[3].modelId} /\ DOMAIN results[3].metrics = {"lat"}
  /\ ret.value = <<"B", "A">>

(***************************************************************************)
(* C15: two models whose means for the metric are equal appear in the      *)
(* ranking in the order in which they first appear in the input with a     *)
(* value for the metric, whatever strings the model ids are.               *)
(***************************************************************************)
C15_TiesInFirstAppearanceOrder ==
  call.op = "rankByMetric" =>
    LET m == call.metricName
        ranking == ret.value
    IN  \A k, l \in 1..Len(ranking) :
          (k < l /\ ModelMean(results, ranking[k], m) = ModelMean(results, ranking[l], m))
            => FirstCarrier(results, ranking[k], m) < FirstCarrier(results, ranking[l], m)

(***************************************************************************)
(* C16: for every reordering of the input results, rankByMetric returns    *)
(* the same set of models, and any two models whose means differ are in    *)
(* the same relative order.                                                *)
(***************************************************************************)
Reorderings(n) ==
  {p \in [1..n -> 1..n] : \A i, j \in 1..n : i # j => p[i] # p[j]}

MaxSigResults == 2

SigValues == {<<0, 1>>, <<1, 10>>, <<1, 4>>}

SigMetricMaps == UNION {[S -> SigValues] : S \in SUBSET MetricNames}

SigResultLists ==
  UNION {[1..n -> [modelId : ModelIds, scenarioId : {"s1"}, metrics : SigMetricMaps]] :
           n \in 0..MaxSigResults}

InitSig ==
  /\ results \in SigResultLists
  /\ InitCall

NextSig == CompareModels

SpecSig == InitSig /\ [][NextSig]_vars

(***************************************************************************)
(* C17: statisticalSignificance has the keys of metricDifferences, and the *)
(* flag of a metric is true if and only if the absolute difference of the  *)
(* two means is strictly greater than 0.1; a difference of exactly 0.1 is  *)
(* not significant.                                                        *)
(***************************************************************************)
C17_SignificanceAboveThreshold ==
  call.op = "compareModels" =>
    LET sig == ret.value.statisticalSignificance
        gap(m) == RSub(ModelMean(results, call.modelA, m),
                       ModelMean(results, call.modelB, m))
    IN  /\ DOMAIN sig = DOMAIN ret.value.metricDifferences
        /\ \A m \in DOMAIN sig :
             sig[m] <=> (10 * Abs(gap(m)[1]) > gap(m)[2])

C17_Witness ==
  /\ Returned("compareModels")
  /\ call.modelA = "A" /\ call.modelB = "B"
  /\ DOMAIN ret.value.metricDifferences = {"acc", "lat"}
  /\ ret.value.metricDifferences["acc"] = <<-1, 10>>
  /\ ret.value.statisticalSignificance["acc"] = FALSE
  /\ ret.value.statisticalSignificance["lat"] = TRUE

(***************************************************************************)
(* AggregationService: a call repeated, and what a call leaves of the      *)
(* arrays it is handed.  No statement of either service assigns to the     *)
(* results array or calls a mutating method on it (the services use        *)
(* length, forEach, for-of, map, filter and includes), which is the        *)
(* unchanged `results` of every action.  The one mutating array method of  *)
(* the aggregation code is the sort of calculateStats, applied to a spread *)
(* copy of the values array the helper is handed; CalculateStats is the    *)
(* helper's invocation by getMetricSummary and calculateMetricsSummary,    *)
(* and records that array as the helper leaves it.                         *)
(***************************************************************************)
AggregateResultsAgain ==
  /\ call = [op |-> "aggregateResults"]
  /\ call' = [op |-> "aggregateResults", first |-> ret]
  /\ ret' = aggregateResults(results)
  /\ UNCHANGED <<results, coordVars>>

CalculateStats ==
  /\ Idle
  /\ \E metricName \in MetricNames :
       LET values == MetricValues(results, metricName)
       IN  /\ Len(values) > 0
           /\ call' = [op |-> "calculateStats", metricName |-> metricName,
                       values |-> SpreadSort(values).values]
           /\ ret' = Return(calculateStats(values))
  /\ UNCHANGED <<results, coordVars>>

NextIdem ==
  \/ AggregateResults
  \/ AggregateResultsAgain
  \/ CalculateStats

SpecIdem == Init /\ [][NextIdem]_vars

MaxComparisons == 2

SummaryModelIds == {"A", ""}

DiffEntries ==
  { <<<<"acc", <<-1, 8>>>>>>,
    <<<<"lat", <<5, 24>>>>, <<"acc", <<0, 1>>>>>> }

SigEntries ==
  { <<>>,
    <<<<"lat", TRUE>>, <<"acc", FALSE>>>> }

ComparisonResultLegacy ==
  [modelA : SummaryModelIds, modelB : {"B"}, metricDifferences : DiffEntries,
   winner : {Undefined, "A", ""}]
  \cup
  [modelA : SummaryModelIds, modelB : {"B"}, metricDifferences : DiffEntries,
   statisticalSignificance : SigEntries, winner : {Undefined, "A", ""}]

ComparisonLists == UNION {[1..n -> ComparisonResultLegacy] : n \in 0..MaxComparisons}

RECURSIVE Repeat(_, _)
Repeat(str, count) == IF count = 0 THEN "" ELSE str \o Repeat(str, count - 1)

Pad4(k) ==
  IF k < 10 THEN "000" \o ToString(k)
  ELSE IF k < 100 THEN "00" \o ToString(k)
  ELSE IF k < 1000 THEN "0" \o ToString(k)
  ELSE ToString(k)

ToFixed4(q) ==
  LET scaled == (2 * Abs(q[1]) * 10000 + q[2]) \div (2 * q[2])
  IN  (IF q[1] < 0 THEN "-" ELSE "")
        \o ToString(scaled \div 10000) \o "." \o Pad4(scaled % 10000)

Truthy(v) == v # Undefined /\ v # ""

HasSignificance(comparison) == "statisticalSignificance" \in DOMAIN comparison

DifferenceLines(entries) ==
  [k \in 1..Len(entries) |-> "  " \o entries[k][1] \o ": " \o ToFixed4(entries[k][2])]

SignificanceLines(entries) ==
  [k \in 1..Len(entries) |-> "  " \o entries[k][1] \o ": "
                               \o (IF entries[k][2] THEN "Yes" ELSE "No")]

ComparisonNumber(index) == index + 1

ComparisonLines(comparison, index) ==
  << "Comparison " \o ToString(ComparisonNumber(index)) \o ": "
       \o comparison.modelA \o " vs " \o comparison.modelB,
     Repeat("-", 50),
     "Metric Differences:" >>
  \o DifferenceLines(comparison.metricDifferences)
  \o (IF Truthy(comparison.winner)
      THEN << "Winner: " \o comparison.winner >> ELSE << >>)
  \o (IF HasSignificance(comparison)
      THEN << "Statistical Significance:" >>
             \o SignificanceLines(comparison.statisticalSignificance)
      ELSE << >>)
  \o << "" >>

RECURSIVE SummaryLoop(_, _)
SummaryLoop(comparisons, index) ==
  IF index >= Len(comparisons) THEN << >>
  ELSE ComparisonLines(comparisons[index + 1], index)
         \o SummaryLoop(comparisons, index + 1)

generateSummary(comparisons) ==
  << "Model Comparison Summary", Repeat("=", 50), "" >>
  \o SummaryLoop(comparisons, 0)

InitSummary ==
  /\ results = << >>
  /\ InitCall

GenerateSummary ==
  /\ Idle
  /\ \E comparisons \in ComparisonLists :
       /\ call' = [op |-> "generateSummary", comparisons |-> comparisons]
       /\ ret' = Return(generateSummary(comparisons))
  /\ UNCHANGED <<results, coordVars>>

NextSummary == GenerateSummary

SpecSummary == InitSummary /\ [][NextSummary]_vars

(***************************************************************************)
(* The report as the format describes it: the block of comparison number n *)
(* has the winner line exactly when the comparison has a winner, and the   *)
(* significance heading in every block.  The format gives every comparison *)
(* a statisticalSignificance map, and C20 is stated for such comparisons.  *)
(***************************************************************************)
DescribedBlock(comparison, n) ==
  << "Comparison " \o ToString(n) \o ": " \o comparison.modelA \o " vs " \o comparison.modelB,
     "--------------------------------------------------",
     "Metric Differences:" >>
  \o DifferenceLines(comparison.metricDifferences)
  \o (IF comparison.winner # Undefined
      THEN << "Winner: " \o comparison.winner >> ELSE << >>)
  \o << "Statistical Significance:" >>
  \o (IF HasSignificance(comparison)
      THEN SignificanceLines(comparison.statisticalSignificance) ELSE << >>)
  \o << "" >>

RECURSIVE DescribedBlocks(_, _)
DescribedBlocks(comparisons, n) ==
  IF n > Len(comparisons) THEN << >>
  ELSE DescribedBlock(comparisons[n], n) \o DescribedBlocks(comparisons, n + 1)

DescribedReport(comparisons) ==
  << "Model Comparison Summary",
     "==================================================",
     "" >>
  \o DescribedBlocks(comparisons, 1)

(***************************************************************************)
(* C20: for every list of comparisons generateSummary returns the title,   *)
(* a line of 50 '=' and a blank line, and then for each comparison, in the *)
(* order of the list and numbered from 1: the heading with the two model   *)
(* ids, a line of 50 '-', 'Metric Differences:' and a line per metric, a   *)
(* 'Winner:' line if and only if the comparison has a winner, 'Statistical *)
(* Significance:' and a Yes/No line per metric, and a blank line.          *)
(***************************************************************************)
C20_SummaryFormat ==
  (/\ call.op = "generateSummary"
   /\ \A k \in 1..Len(call.comparisons) : HasSignificance(call.comparisons[k]))
    => ret.value = DescribedReport(call.comparisons)

(***************************************************************************)
(* JavaScript numbers at their width.  The arithmetic above is exact,      *)
(* which is the arithmetic of the code on the dyadic values of the parts   *)
(* above.  For values such as 0.1 a sum or a quotient is rounded, and the  *)
(* statistics are then modelled on IEEE 754 binary64 numbers: a positive   *)
(* number is a record [k |-> "num", m, e], m the 53 bits of the            *)
(* significand, most significant first and m[1] = 1, and e the exponent of *)
(* the last bit, so that the value is m * 2^e.  Results are rounded to the *)
(* nearest number, ties to the even significand.  The values of this part  *)
(* are positive and far from the overflow and underflow thresholds.        *)
(***************************************************************************)
SignificandBits == 53

DNaN == [k |-> "nan", m |-> << >>, e |-> 0]

DZero == [k |-> "zero", m |-> << >>, e |-> 0]

Zeros(count) == [i \in 1..count |-> 0]

StripLeading(bits) ==
  LET ones == {i \in 1..Len(bits) : bits[i] = 1}
  IN  IF ones = {} THEN << >>
      ELSE SubSeq(bits, CHOOSE i \in ones : \A j \in ones : i <= j, Len(bits))

(* The sum of two bit sequences of the same length, one bit longer: the    *)
(* carry into a position is raised by the nearest lower position where     *)
(* both bits are 1, when every position in between has one bit set.        *)
BitsAdd(a, b) ==
  LET len == Len(a)
      carry(p) == IF \E j \in (p + 1)..len :
                       /\ a[j] = 1 /\ b[j] = 1
                       /\ \A h \in (p + 1)..(j - 1) : a[h] + b[h] = 1
                  THEN 1 ELSE 0
  IN  [i \in 1..(len + 1) |->
         IF i = 1 THEN carry(0) ELSE (a[i - 1] + b[i - 1] + carry(i - 1)) % 2]

Round53(bits, e, sticky) ==
  LET len == Len(bits)
  IN  IF len <= SignificandBits
      THEN [k |-> "num", m |-> bits \o Zeros(SignificandBits - len),
            e |-> e - (SignificandBits - len)]
      ELSE LET kept == SubSeq(bits, 1, SignificandBits)
               guard == bits[SignificandBits + 1]
               rest == sticky \/ \E i \in (SignificandBits + 2)..len : bits[i] = 1
               up == guard = 1 /\ (rest \/ kept[SignificandBits] = 1)
               bumped == BitsAdd(kept, Zeros(SignificandBits - 1) \o <<1>>)
               e1 == e + (len - SignificandBits)
           IN  IF ~up THEN [k |-> "num", m |-> kept, e |-> e1]
               ELSE IF bumped[1] = 1
                    THEN [k |-> "num", m |-> SubSeq(bumped, 1, SignificandBits), e |-> e1 + 1]
                    ELSE [k |-> "num", m |-> Tail(bumped), e |-> e1]

DAdd(x, y) ==
  IF x.k = "nan" \/ y.k = "nan" THEN DNaN
  ELSE IF x.k = "zero" THEN y
  ELSE IF y.k = "zero" THEN x
  ELSE LET e == IF x.e < y.e THEN x.e ELSE y.e
           ax == x.m \o Zeros(x.e - e)
           ay == y.m \o Zeros(y.e - e)
           len == IF Len(ax) > Len(ay) THEN Len(ax) ELSE Len(ay)
           total == BitsAdd(Zeros(len - Len(ax)) \o ax, Zeros(len - Len(ay)) \o ay)
       IN  Round53(StripLeading(total), e, FALSE)

(* Division of a number by a small positive integer: the significand is    *)
(* extended by 11 zero bits to 64 bits and divided as 8 digits of 8 bits.  *)
QuotientExtraBits == 11

DigitBits == 8

DigitAt(bits, i) ==
  LET o == DigitBits * (i - 1)
  IN  128 * bits[o + 1] + 64 * bits[o + 2] + 32 * bits[o + 3] + 16 * bits[o + 4]
        + 8 * bits[o + 5] + 4 * bits[o + 6] + 2 * bits[o + 7] + bits[o + 8]

RECURSIVE LongDivide(_, _, _, _)
LongDivide(bits, i, rem, divisor) ==
  IF DigitBits * i > Len(bits) THEN [q |-> << >>, r |-> rem]
  ELSE LET cur == 256 * rem + DigitAt(bits, i)
           digit == cur \div divisor
           rest == LongDivide(bits, i + 1, cur % divisor, divisor)
       IN  [q |-> [j \in 1..DigitBits |-> (digit \div 2^(DigitBits - j)) % 2] \o rest.q,
            r |-> rest.r]

DDivInt(x, divisor) ==
  IF x.k = "nan" THEN DNaN
  ELSE IF x.k = "zero" THEN (IF divisor = 0 THEN DNaN ELSE DZero)
  ELSE LET d == LongDivide(x.m \o Zeros(QuotientExtraBits), 1, 0, divisor)
       IN  Round53(StripLeading(d.q), x.e - QuotientExtraBits, d.r # 0)

BitsLe(a, b) ==
  LET differ == {i \in 1..Len(a) : a[i] # b[i]}
      first == CHOOSE i \in differ : \A j \in differ : i <= j
  IN  differ = {} \/ a[first] < b[first]

DLe(x, y) ==
  IF x.k = "nan" \/ y.k = "nan" THEN FALSE
  ELSE IF x.k = "zero" THEN TRUE
  ELSE IF y.k = "zero" THEN FALSE
  ELSE IF x.e # y.e THEN x.e < y.e
  ELSE BitsLe(x.m, y.m)

(* The number a decimal literal n/d (0 < n < d) denotes: the first 64 bits *)
(* of the binary expansion of n/d, rounded.                                *)
LiteralBits == 64

RECURSIVE Pow2Mod(_, _)
Pow2Mod(t, d) ==
  IF t = 0 THEN 1 % d
  ELSE IF t % 2 = 0 THEN (Pow2Mod(t \div 2, d) * Pow2Mod(t \div 2, d)) % d
  ELSE (2 * Pow2Mod(t - 1, d)) % d

DLiteral(n, d) ==
  LET bits == [i \in 1..LiteralBits |-> (2 * ((n * Pow2Mod(i - 1, d)) % d)) \div d]
      r == (n * Pow2Mod(LiteralBits, d)) % d
  IN  Round53(StripLeading(bits), -LiteralBits, r # 0)

(***************************************************************************)
(* AggregationService.calculateStats on binary64 numbers.  The values are  *)
(* 0.1, 0.25 and 0.7.  The record carries mean, median, min and max;       *)
(* stdDev, which no property of this part reads, is not carried.           *)
(***************************************************************************)
MaxStatValues == 4

StatValues == {DLiteral(1, 10), DLiteral(1, 4), DLiteral(7, 10)}

StatValueLists == UNION {[1..n -> StatValues] : n \in 0..MaxStatValues}

RECURSIVE ReduceAdd(_, _)
ReduceAdd(values, acc) ==
  IF values = << >> THEN acc ELSE ReduceAdd(Tail(values), DAdd(acc, values[1]))

RECURSIVE InsertNumber(_, _)
InsertNumber(v, s) ==
  IF s = << >> THEN <<v>>
  ELSE IF DLe(s[1], v) THEN <<s[1]>> \o InsertNumber(v, Tail(s))
  ELSE <<v>> \o s

RECURSIVE SortNumbers(_)
SortNumbers(s) ==
  IF s = << >> THEN << >> ELSE InsertNumber(s[1], SortNumbers(Tail(s)))

calculateStatsBinary64(values) ==
  LET n == Len(values)
      sorted == SortNumbers(values)
      sum == ReduceAdd(values, DZero)
      mean == DDivInt(sum, n)
      median == IF n % 2 = 0
                THEN IF n = 0 THEN DNaN
                     ELSE DDivInt(DAdd(sorted[n \div 2], sorted[n \div 2 + 1]), 2)
                ELSE sorted[n \div 2 + 1]
  IN  [mean |-> mean, median |-> median,
       min |-> IF n = 0 THEN Undefined ELSE sorted[1],
       max |-> IF n = 0 THEN Undefined ELSE sorted[n]]

InitStats ==
  /\ results = << >>
  /\ InitCall

CalculateStatsBinary64 ==
  /\ Idle
  /\ \E values \in StatValueLists :
       /\ call' = [op |-> "calculateStats", values |-> values]
       /\ ret' = Return(calculateStatsBinary64(values))
  /\ UNCHANGED <<results, coordVars>>

NextStats == CalculateStatsBinary64

SpecStats == InitStats /\ [][NextStats]_vars

(***************************************************************************)
(* C21: calculateStats fails on the empty sequence of values, and returns  *)
(* no statistics record for it.                                            *)
(***************************************************************************)
C21_StatsRejectsEmpty ==
  (call.op = "calculateStats" /\ call.values = << >>) => ret.threw

(***************************************************************************)
(* The k-th smallest of the values, by counting.                           *)
(***************************************************************************)
Below(values, v) == {i \in 1..Len(values) : values[i] # v /\ DLe(values[i], v)}

UpTo(values, v) == {i \in 1..Len(values) : DLe(values[i], v)}

Smallest(values, k) ==
  CHOOSE v \in {values[i] : i \in 1..Len(values)} :
    Cardinality(Below(values, v)) < k /\ k <= Cardinality(UpTo(values, v))

(***************************************************************************)
(* C24: for every non-empty sequence of values, median is the middle       *)
(* element of the values in ascending order for an odd count and the       *)
(* average of the two middle elements for an even count, min is the        *)
(* smallest and max the largest value, and min <= median <= max and        *)
(* min <= mean <= max.                                                     *)
(***************************************************************************)
C24_MedianMinMaxAndBounds ==
  (call.op = "calculateStats" /\ call.values # << >>) =>
    LET values == call.values
        n == Len(values)
        stats == ret.value
    IN  /\ stats.median =
             IF n % 2 = 1 THEN Smallest(values, n \div 2 + 1)
             ELSE DDivInt(DAdd(Smallest(values, n \div 2), Smallest(values, n \div 2 + 1)), 2)
        /\ stats.min = Smallest(values, 1)
        /\ stats.max = Smallest(values, n)
        /\ DLe(stats.min, stats.median) /\ DLe(stats.median, stats.max)
        /\ DLe(stats.min, stats.mean) /\ DLe(stats.mean, stats.max)

(***************************************************************************)
(* AggregationService.aggregateByModel and aggregateByScenario, which      *)
(* group with groupByModel and groupByScenario and summarize each group.   *)
(***************************************************************************)
RECURSIVE groupByModel_ByScenario(_, _)
groupByModel_ByScenario(rs, grouped) ==
  IF rs = << >> THEN grouped
  ELSE groupByModel_ByScenario(Tail(rs), GroupPush(grouped, rs[1].scenarioId, rs[1]))

RECURSIVE groupByModel(_, _)
groupByModel(rs, grouped) ==
  IF rs = << >> THEN grouped
  ELSE groupByModel(Tail(rs), GroupPush(grouped, rs[1].modelId, rs[1]))

RECURSIVE groupByScenario(_, _)
groupByScenario(rs, grouped) ==
  IF rs = << >> THEN grouped
  ELSE groupByScenario(Tail(rs), GroupPush(grouped, rs[1].scenarioId, rs[1]))

aggregateByModel(rs) ==
  LET grouped == groupByModel(rs, << >>)
  IN  Return([modelId \in DOMAIN grouped |-> calculateMetricsSummary(grouped[modelId])])

aggregateByScenario(rs) ==
  LET grouped == groupByScenario(rs, << >>)
  IN  Return([scenarioId \in DOMAIN grouped |-> calculateMetricsSummary(grouped[scenarioId])])

AggregateByModel ==
  /\ Idle
  /\ call' = [op |-> "aggregateByModel"]
  /\ ret' = aggregateByModel(results)
  /\ UNCHANGED <<results, coordVars>>

AggregateByScenario ==
  /\ Idle
  /\ call' = [op |-> "aggregateByScenario"]
  /\ ret' = aggregateByScenario(results)
  /\ UNCHANGED <<results, coordVars>>

NextViews ==
  \/ AggregateResults
  \/ AggregateByModel
  \/ AggregateByScenario
  \/ CalculateOverall

SpecViews == Init /\ [][NextViews]_vars

(***************************************************************************)
(* C30: for every non-empty list of results, aggregateByModel returns the  *)
(* byModel field, aggregateByScenario the byScenario field and             *)
(* calculateOverall the overall field of what aggregateResults returns for *)
(* the list, and overall.count is the sum of the byModel counts and the    *)
(* sum of the byScenario counts.                                           *)
(***************************************************************************)
C30_ViewsOfAggregateResults ==
  (Len(results) > 0 /\ call.op # "none") =>
    LET whole == aggregateResults(results).value.aggregatedMetrics
    IN  /\ ~ret.threw
        /\ call.op = "aggregateByModel" => ret.value = whole.byModel
        /\ call.op = "aggregateByScenario" => ret.value = whole.byScenario
        /\ call.op = "calculateOverall" => ret.value = whole.overall
        /\ call.op = "aggregateResults" =>
             LET metrics == ret.value.aggregatedMetrics
             IN  /\ metrics.overall.count = SumCounts(metrics.byModel, DOMAIN metrics.byModel)
                 /\ metrics.overall.count = SumCounts(metrics.byScenario, DOMAIN metrics.byScenario)

C30_Witness ==
  /\ Returned("aggregateByModel")
  /\ Len(results) = 2
  /\ results[1].modelId # results[2].modelId
  /\ results[1].scenarioId = results[2].scenarioId
  /\ DOMAIN ret.value = {"A", "B"}
  /\ ret.value["A"].count = 1

(***************************************************************************)
(* CoordinationService.  The service keeps the Map activeRuns from run ids *)
(* to SimulationRun objects.  `runs` holds the SimulationRun objects the   *)
(* service has created, in the order of their creation, and activeRuns     *)
(* maps a run id to the position of its object: a call that is waiting for *)
(* the simulator keeps its own object, whatever the Map holds by then.     *)
(*                                                                         *)
(* Every call of a method of the service is a task.  A task runs without   *)
(* interruption up to its next await on the simulator adapter (pc names    *)
(* the adapter method awaited) and again from the settlement of that       *)
(* promise to the next await or to its end (pc = "done", ret what it       *)
(* returned or threw).  The simulator is outside the service: each of its  *)
(* promises resolves or rejects, at any time.  `now` is Date.now(), which  *)
(* advances at any time; adapterCalls lists the calls made on the adapter. *)
(***************************************************************************)
MaxCalls == 2

MaxClock == 1

NoDate == -1

EmptyConfig == [modelConfigs |-> << >>, scenarioIds |-> << >>, iterations |-> 1]

SomeConfig == [modelConfigs |-> << >>, scenarioIds |-> <<"s1">>, iterations |-> 2]

SimulationConfigs == {EmptyConfig, SomeConfig}

ValidRequests ==
  { [id |-> "e1", experimentId |-> "e1", simulationConfig |-> SomeConfig],
    [id |-> "e1", experimentId |-> "e2", simulationConfig |-> EmptyConfig] }

InvalidRequests ==
  { [id |-> "", experimentId |-> "e1", simulationConfig |-> SomeConfig],
    [id |-> "e1", experimentId |-> "", simulationConfig |-> SomeConfig],
    [id |-> "e1", experimentId |-> "e1"] }

SimpleResearchRequest == ValidRequests \cup InvalidRequests

(***************************************************************************)
(* The calls made so far on the service: one for each task, and one more   *)
(* for each further request of a batch, which batchCoordinate passes to    *)
(* coordinateSimulation in its turn.                                       *)
(***************************************************************************)
CallsOf(task) == IF Len(task.requests) > 1 THEN Len(task.requests) ELSE 1

CallsMade == Cardinality({c \in (1..Len(tasks)) \X (1..MaxCalls) : c[2] <= CallsOf(tasks[c[1]])})

BatchLists == UNION {[1..n -> SimpleResearchRequest] : n \in 0..(MaxCalls - CallsMade)}

RunIdArguments == DOMAIN activeRuns \cup {"run-none"}

SimulationStatus == {"pending", "running", "completed", "failed", "cancelled"}

Rejections == {"Error", "value"}

SimulatorError == "Simulator unavailable"

ErrNoRequestId == "Research request must have an ID"

ErrNoExperimentId == "Research request must have an experiment ID"

ErrNoSimulationConfig == "Research request must have simulation configuration"

ErrNoSimulation(runId) == "No simulation found with ID: " \o runId

ErrCannotCancel(status) == "Cannot cancel simulation with status: " \o status

ErrCannotRetry(status) == "Cannot retry simulation with status: " \o status

validateRequest_NoExperimentCheck(request) ==
  IF ~Truthy(request.id) THEN Throw(ErrNoRequestId)
  ELSE IF "simulationConfig" \notin DOMAIN request THEN Throw(ErrNoSimulationConfig)
  ELSE Return(Undefined)

validateRequest(request) ==
  IF ~Truthy(request.id) THEN Throw(ErrNoRequestId)
  ELSE IF ~Truthy(request.experimentId) THEN Throw(ErrNoExperimentId)
  ELSE IF "simulationConfig" \notin DOMAIN request THEN Throw(ErrNoSimulationConfig)
  ELSE Return(Undefined)

generateRunId(request, time) ==
  "run-" \o request.experimentId \o "-" \o ToString(time)

getSimulationConfig == EmptyConfig

MapSet(map, key, value) ==
  [k \in DOMAIN map \cup {key} |-> IF k = key THEN value ELSE map[k]]

Put(seq, i, x) == IF i > Len(seq) THEN Append(seq, x) ELSE [seq EXCEPT ![i] = x]

NewTask(op, runId, requests) ==
  [op |-> op, pc |-> "start", runId |-> runId, target |-> 0, requests |-> requests,
   started |-> << >>, responses |-> << >>, ret |-> Return(Undefined)]

Finish(task, outcome) == [task EXCEPT !.pc = "done", !.ret = outcome]

(***************************************************************************)
(* coordinateSimulation up to its await, for task i: validation, the run   *)
(* id, the new run recorded as 'pending' and set to 'running' at once, and *)
(* the call of startSimulation.                                            *)
(***************************************************************************)
BeginCoordinate(i, request, task) ==
  LET valid == validateRequest(request)
      runId == generateRunId(request, now)
      run == [id |-> runId, requestId |-> request.id, status |-> "running",
              startedAt |-> now, completedAt |-> NoDate, error |-> Undefined]
  IN  IF valid.threw
      THEN /\ tasks' = Put(tasks, i, Finish(task, valid))
           /\ UNCHANGED <<runs, activeRuns, adapterCalls>>
      ELSE /\ runs' = Append(runs, run)
           /\ activeRuns' = MapSet(activeRuns, runId, Len(runs) + 1)
           /\ adapterCalls' = Append(adapterCalls,
                [method |-> "startSimulation", config |-> request.simulationConfig])
           /\ tasks' = Put(tasks, i,
                [task EXCEPT !.pc = "startSimulation", !.started = Append(@, Len(runs) + 1)])

CoordinateSimulation ==
  /\ CallsMade < MaxCalls
  /\ \E request \in SimpleResearchRequest :
       BeginCoordinate(Len(tasks) + 1, request,
                       NewTask("coordinateSimulation", "", <<request>>))
  /\ UNCHANGED <<results, call, ret, now>>

BatchCoordinate ==
  /\ CallsMade < MaxCalls
  /\ \E requests \in BatchLists :
       LET task == NewTask("batchCoordinate", "", requests)
       IN  IF requests = << >>
           THEN /\ tasks' = Append(tasks, Finish(task, Return(<< >>)))
                /\ UNCHANGED <<runs, activeRuns, adapterCalls>>
           ELSE BeginCoordinate(Len(tasks) + 1, requests[1], task)
  /\ UNCHANGED <<results, call, ret, now>>

RetrySimulation ==
  /\ CallsMade < MaxCalls
  /\ \E runId \in RunIdArguments :
       LET task == NewTask("retrySimulation", runId, << >>)
       IN  IF runId \notin DOMAIN activeRuns
           THEN /\ tasks' = Append(tasks, Finish(task, Throw(ErrNoSimulation(runId))))
                /\ UNCHANGED <<runs, activeRuns, adapterCalls>>
           ELSE LET run == runs[activeRuns[runId]]
                    retryRequest == [id |-> run.requestId \o "-retry",
                                     experimentId |-> run.requestId,
                                     simulationConfig |-> getSimulationConfig]
                IN  IF run.status # "failed"
                    THEN /\ tasks' = Append(tasks, Finish(task, Throw(ErrCannotRetry(run.status))))
                         /\ UNCHANGED <<runs, activeRuns, adapterCalls>>
                    ELSE BeginCoordinate(Len(tasks) + 1, retryRequest,
                           [task EXCEPT !.target = activeRuns[runId],
                                        !.requests = <<retryRequest>>])
  /\ UNCHANGED <<results, call, ret, now>>

(***************************************************************************)
(* The promise of startSimulation settles: the task that awaits it writes  *)
(* the outcome into its run and returns its response (to batchCoordinate,  *)
(* when batchCoordinate made the call).                                    *)
(***************************************************************************)
StartSimulationSettles ==
  /\ \E i \in 1..Len(tasks), outcome \in {"resolved"} \cup Rejections :
       LET task == tasks[i]
           ref == task.started[Len(task.started)]
           message == IF outcome = "Error" THEN SimulatorError ELSE "Unknown error"
           response == IF outcome = "resolved"
                       THEN [runId |-> runs[ref].id, status |-> "completed",
                             message |-> "Simulation completed successfully"]
                       ELSE [runId |-> runs[ref].id, status |-> "failed",
                             message |-> message]
       IN  /\ task.pc = "startSimulation"
           /\ runs' = IF outcome = "resolved"
                      THEN [runs EXCEPT ![ref].status = "completed",
                                        ![ref].completedAt = now]
                      ELSE [runs EXCEPT ![ref].status = "failed",
                                        ![ref].error = message,
                                        ![ref].completedAt = now]
           /\ tasks' = [tasks EXCEPT ![i] =
                IF task.op = "batchCoordinate"
                THEN [task EXCEPT !.pc = "resume", !.responses = Append(@, response)]
                ELSE Finish(task, Return(response))]
  /\ UNCHANGED <<results, call, ret, now, activeRuns, adapterCalls>>

BatchResumes ==
  /\ \E i \in 1..Len(tasks) :
       LET task == tasks[i]
       IN  /\ task.op = "batchCoordinate"
           /\ task.pc = "resume"
           /\ IF Len(task.responses) = Len(task.requests)
              THEN /\ tasks' = [tasks EXCEPT ![i] = Finish(task, Return(task.responses))]
                   /\ UNCHANGED <<runs, activeRuns, adapterCalls>>
              ELSE BeginCoordinate(i, task.requests[Len(task.responses) + 1], task)
  /\ UNCHANGED <<results, call, ret, now>>

MonitorProgress ==
  /\ CallsMade < MaxCalls
  /\ \E runId \in RunIdArguments :
       LET task == NewTask("monitorProgress", runId, << >>)
       IN  IF runId \notin DOMAIN activeRuns
           THEN /\ tasks' = Append(tasks, Finish(task, Throw(ErrNoSimulation(runId))))
                /\ UNCHANGED adapterCalls
           ELSE LET ref == activeRuns[runId]
                IN  IF runs[ref].status = "running"
                    THEN /\ tasks' = Append(tasks,
                              [task EXCEPT !.pc = "getStatus", !.target = ref])
                         /\ adapterCalls' = Append(adapterCalls,
                              [method |-> "getStatus", runId |-> runId])
                    ELSE /\ tasks' = Append(tasks,
                              Finish([task EXCEPT !.target = ref], Return(ref)))
                         /\ UNCHANGED adapterCalls
  /\ UNCHANGED <<results, call, ret, now, runs, activeRuns>>

GetStatusSettles ==
  /\ \E i \in 1..Len(tasks), outcome \in SimulationStatus \cup Rejections :
       LET task == tasks[i]
           ref == task.target
       IN  /\ task.pc = "getStatus"
           /\ runs' = IF outcome \in SimulationStatus
                      THEN [runs EXCEPT ![ref].status = outcome]
                      ELSE [runs EXCEPT ![ref].status = "failed",
                                        ![ref].error = IF outcome = "Error"
                                                       THEN SimulatorError
                                                       ELSE "Status check failed"]
           /\ tasks' = [tasks EXCEPT ![i] = Finish(task, Return(ref))]
  /\ UNCHANGED <<results, call, ret, now, activeRuns, adapterCalls>>

CancelRefusal_NoStatusCheck(runId) ==
  IF runId \notin DOMAIN activeRuns THEN Throw(ErrNoSimulation(runId))
  ELSE Return(Undefined)

CancelRefusal(runId) ==
  IF runId \notin DOMAIN activeRuns THEN Throw(ErrNoSimulation(runId))
  ELSE IF runs[activeRuns[runId]].status # "running"
       THEN Throw(ErrCannotCancel(runs[activeRuns[runId]].status))
       ELSE Return(Undefined)

CancelSimulation ==
  /\ CallsMade < MaxCalls
  /\ \E runId \in RunIdArguments :
       LET task == NewTask("cancelSimulation", runId, << >>)
           refusal == CancelRefusal(runId)
       IN  IF refusal.threw
           THEN /\ tasks' = Append(tasks, Finish(task, refusal))
                /\ UNCHANGED adapterCalls
           ELSE /\ tasks' = Append(tasks,
                     [task EXCEPT !.pc = "cancelSimulation", !.target = activeRuns[runId]])
                /\ adapterCalls' = Append(adapterCalls,
                     [method |-> "cancelSimulation", runId |-> runId])
  /\ UNCHANGED <<results, call, ret, now, runs, activeRuns>>

CancelSettles ==
  /\ \E i \in 1..Len(tasks), outcome \in {"resolved"} \cup Rejections :
       LET task == tasks[i]
           ref == task.target
       IN  /\ task.pc = "cancelSimulation"
           /\ IF outcome = "resolved"
              THEN /\ runs' = [runs EXCEPT ![ref].status = "cancelled",
                                           ![ref].completedAt = now]
                   /\ tasks' = [tasks EXCEPT ![i] = Finish(task, Return(Undefined))]
              ELSE /\ runs' = runs
                   /\ tasks' = [tasks EXCEPT ![i] = Finish(task, Throw(outcome))]
  /\ UNCHANGED <<results, call, ret, now, activeRuns, adapterCalls>>

Tick ==
  /\ now < MaxClock
  /\ now' = now + 1
  /\ UNCHANGED <<results, call, ret, runs, activeRuns, tasks, adapterCalls>>

InitCoord ==
  /\ results = << >>
  /\ InitCall

NextCoord ==
  \/ CoordinateSimulation
  \/ BatchCoordinate
  \/ RetrySimulation
  \/ MonitorProgress
  \/ CancelSimulation
  \/ StartSimulationSettles
  \/ BatchResumes
  \/ GetStatusSettles
  \/ CancelSettles
  \/ Tick

SpecCoord == InitCoord /\ [][NextCoord]_vars

(***************************************************************************)
(* The configuration with which the simulation of run number ref was       *)
(* started: every run is created with one call of startSimulation, so the  *)
(* calls of startSimulation are in the order of the runs.                  *)
(***************************************************************************)
StartSimulationCalls == SelectSeq(adapterCalls, LAMBDA c : c.method = "startSimulation")

StartedConfig(ref) == StartSimulationCalls[ref].config

IsNewTask(op) == Len(tasks') = Len(tasks) + 1 /\ tasks'[Len(tasks')].op = op

C23_CancelOnlyRunning ==
  [][ /\ IsNewTask("cancelSimulation") =>
           LET task == tasks'[Len(tasks')]
           IN  /\ runs' = runs
               /\ IF /\ task.runId \in DOMAIN activeRuns
                     /\ runs[activeRuns[task.runId]].status = "running"
                  THEN /\ task.pc = "cancelSimulation"
                       /\ adapterCalls' = Append(adapterCalls,
                            [method |-> "cancelSimulation", runId |-> task.runId])
                  ELSE /\ task.pc = "done"
                       /\ task.ret.threw
                       /\ adapterCalls' = adapterCalls
      /\ \A i \in 1..Len(tasks) :
           (tasks[i].op = "cancelSimulation" /\ tasks'[i] # tasks[i]) =>
             /\ tasks[i].pc = "cancelSimulation"
             /\ tasks'[i].pc = "done"
             /\ adapterCalls' = adapterCalls
             /\ IF tasks'[i].ret.threw
                THEN runs' = runs
                ELSE /\ runs'[tasks[i].target].status = "cancelled"
                     /\ runs'[tasks[i].target].completedAt # NoDate
                     /\ \A k \in 1..Len(runs) : k # tasks[i].target => runs'[k] = runs[k]
    ]_vars

C23_Witness ==
  \E i, j \in 1..Len(tasks) :
    /\ tasks[i].op = "cancelSimulation"
    /\ tasks[i].pc = "done"
    /\ ~tasks[i].ret.threw
    /\ runs[tasks[i].target].status = "cancelled"
    /\ tasks[j].op = "coordinateSimulation"
    /\ tasks[j].started = <<tasks[i].target>>

(***************************************************************************)
(* The response that coordinateSimulation returned last in a task: to the  *)
(* caller, or to batchCoordinate.                                          *)
(***************************************************************************)
LastResponse(task) ==
  IF task.op = "batchCoordinate" THEN task.responses[Len(task.responses)] ELSE task.ret.value

Returns(i) == tasks[i].pc = "startSimulation" /\ tasks'[i].pc # "startSimulation"

RecordedRunAgrees(response) ==
  /\ response.status \in {"completed", "failed"}
  /\ response.runId \in DOMAIN activeRuns'
  /\ LET run == runs'[activeRuns'[response.runId]]
     IN  /\ run.status = response.status
         /\ run.completedAt # NoDate
         /\ response.status = "failed" => run.error = response.message

(***************************************************************************)
(* C25: a call of coordinateSimulation whose request passed validation     *)
(* does not throw; at the step at which it returns, its response has       *)
(* status 'completed' or 'failed', and the run that activeRuns holds under *)
(* the returned runId has that status, a completedAt and, when 'failed',   *)
(* the error message of the response.                                      *)
(***************************************************************************)
C25_ReturnedStatusIsRecorded ==
  [][ \A i \in 1..Len(tasks) :
        Returns(i) => /\ ~tasks'[i].ret.threw
                      /\ RecordedRunAgrees(LastResponse(tasks'[i]))
    ]_vars

FinalStatuses == {"cancelled", "completed", "failed"}

(***************************************************************************)
(* C26: whatever the order of the steps of overlapping calls, no step      *)
(* changes the status of a run that is 'cancelled', 'completed' or         *)
(* 'failed'.                                                               *)
(***************************************************************************)
C26_FinalStatusIsKept ==
  [][ \A k \in 1..Len(runs) :
        runs[k].status \in FinalStatuses => runs'[k].status = runs[k].status
    ]_vars

(***************************************************************************)
(* C27: the runs created by the validated calls of coordinateSimulation    *)
(* have different run ids, and activeRuns holds each of them under its id: *)
(* as many entries as runs created.                                        *)
(***************************************************************************)
C27_OneRunIdPerCall ==
  /\ \A k, l \in 1..Len(runs) : k # l => runs[k].id # runs[l].id
  /\ \A k \in 1..Len(runs) : runs[k].id \in DOMAIN activeRuns /\ activeRuns[runs[k].id] = k
  /\ Cardinality(DOMAIN activeRuns) = Len(runs)
  /\ Len(StartSimulationCalls) = Len(runs)

Lacks(request) ==
  \/ \E field \in {"id", "experimentId", "simulationConfig"} : field \notin DOMAIN request
  \/ request.id = ""
  \/ request.experimentId = ""

FirstLacking(requests) ==
  IF \E n \in 1..Len(requests) : Lacks(requests[n])
  THEN CHOOSE n \in 1..Len(requests) :
         Lacks(requests[n]) /\ \A m \in 1..(n - 1) : ~Lacks(requests[m])
  ELSE Len(requests) + 1

NothingStarted ==
  /\ runs' = runs
  /\ activeRuns' = activeRuns
  /\ adapterCalls' = adapterCalls

(***************************************************************************)
(* C28: the step at which coordinateSimulation, called directly or by      *)
(* batchCoordinate, receives a request without id, experimentId or         *)
(* simulationConfig ends the call with an error and adds no run, changes   *)
(* no run and makes no call on the adapter.  A batch never starts a        *)
(* request at or after its first such request, the runs it started before  *)
(* stay in activeRuns, and it ends with that error.                        *)
(***************************************************************************)
C28_InvalidRequestStopsFirst ==
  /\ [][ /\ (IsNewTask("coordinateSimulation") \/ IsNewTask("batchCoordinate")) =>
              LET task == tasks'[Len(tasks')]
              IN  (task.requests # << >> /\ Lacks(task.requests[1])) =>
                    task.pc = "done" /\ task.ret.threw /\ NothingStarted
         /\ \A i \in 1..Len(tasks) :
              (/\ tasks[i].pc = "resume"
               /\ tasks'[i] # tasks[i]
               /\ Len(tasks[i].responses) < Len(tasks[i].requests)
               /\ Lacks(tasks[i].requests[Len(tasks[i].responses) + 1])) =>
                tasks'[i].pc = "done" /\ tasks'[i].ret.threw /\ NothingStarted
       ]_vars
  /\ [](\A i \in 1..Len(tasks) :
          tasks[i].op \in {"coordinateSimulation", "batchCoordinate"} =>
            /\ Len(tasks[i].started) < FirstLacking(tasks[i].requests)
            /\ \A n \in 1..Len(tasks[i].started) :
                 runs[tasks[i].started[n]].id \in DOMAIN activeRuns
            /\ tasks[i].pc = "done" =>
                 tasks[i].ret.threw = (FirstLacking(tasks[i].requests) <= Len(tasks[i].requests)))

C28_Witness ==
  \E i \in 1..Len(tasks) :
    /\ tasks[i].op = "batchCoordinate"
    /\ Len(tasks[i].requests) = 2
    /\ ~Lacks(tasks[i].requests[1])
    /\ Lacks(tasks[i].requests[2])
    /\ tasks[i].pc = "done"
    /\ tasks[i].ret.threw
    /\ Len(tasks[i].started) = 1
    /\ runs[tasks[i].started[1]].status \in {"completed", "failed"}
    /\ Len(runs) = 1

(***************************************************************************)
(* NormalizationService.  The service has no state of its own; a call of   *)
(* normalizeOutput is kept in `call` with the point it has reached (pc)    *)
(* and what the schema adapter has answered so far.  The schema adapter is *)
(* outside the service: each validate promise resolves to true or false or *)
(* rejects, in any order, and getSchemaDefinition resolves to a definition *)
(* with the requested id or rejects.                                       *)
(*                                                                         *)
(* An outputs object and the fields of a schema are sequences of entries   *)
(* in the order of Object.entries.  An output value is a record that tells *)
(* whether typeof value is 'number'.                                       *)
(***************************************************************************)
MaxSimResults == 2

DEFAULT_SCHEMA == "default-v1"

SchemaIds == {Undefined, "", "custom-v2"}

NumberOutput(n) == [isNumber |-> TRUE, number |-> n, text |-> ""]

TextOutput(t) == [isNumber |-> FALSE, number |-> 0, text |-> t]

OutputMaps ==
  { << >>,
    <<[key |-> "accuracy", value |-> NumberOutput(1)]>>,
    <<[key |-> "note", value |-> TextOutput("ok")],
      [key |-> "latency", value |-> NumberOutput(2)]>> }

SimulationResult ==
  [modelId : {"A", "B"}, scenarioId : {"s1"}, iteration : {1},
   outputs : OutputMaps, timestamp : {0}]

SimulationResultLists == UNION {[1..n -> SimulationResult] : n \in 0..MaxSimResults}

FieldMaps ==
  { << >>,
    <<[key |-> "accuracy", type |-> "number"]>>,
    <<[key |-> "note", type |-> "number"], [key |-> "latency", type |-> "string"]>> }

SchemaDefinitions(schemaId) == [id : {schemaId}, version : {"1"}, fields : FieldMaps]

ValidateOutcomes == {"true", "false", "rejected"}

SchemaError == "Schema not found"

ErrSchemaValidation(targetSchema) ==
  "Some results failed schema validation for: " \o targetSchema

TargetSchema(schemaId) == IF Truthy(schemaId) THEN schemaId ELSE DEFAULT_SCHEMA

HasKey(entries, key) == \E n \in 1..Len(entries) : entries[n].key = key

ValueOf(entries, key) == entries[CHOOSE n \in 1..Len(entries) : entries[n].key = key].value

SchemaNumbers(outputs, fields) ==
  LET Extracted(n) == /\ fields[n].type = "number"
                      /\ HasKey(outputs, fields[n].key)
                      /\ ValueOf(outputs, fields[n].key).isNumber
      Entry(n) == [key |-> fields[n].key, value |-> ValueOf(outputs, fields[n].key).number]
      picked == SelectSeq([n \in 1..Len(fields) |-> n], Extracted)
  IN  [m \in 1..Len(picked) |-> Entry(picked[m])]

AnyNumbers(outputs) ==
  LET picked == SelectSeq(outputs, LAMBDA entry : entry.value.isNumber)
  IN  [m \in 1..Len(picked) |-> [key |-> picked[m].key, value |-> picked[m].value.number]]

extractMetrics(outputs, schema) ==
  IF SchemaNumbers(outputs, schema.fields) # << >>
  THEN SchemaNumbers(outputs, schema.fields)
  ELSE AnyNumbers(outputs)

transformSingle(result, schema) ==
  [modelId |-> result.modelId,
   scenarioId |-> result.scenarioId,
   metrics |-> extractMetrics(result.outputs, schema),
   metadata |-> [iteration |-> result.iteration,
                 timestamp |-> result.timestamp,
                 schema |-> schema.id]]

transform_Reversed(sims, schema) ==
  [n \in 1..Len(sims) |-> transformSingle(sims[Len(sims) + 1 - n], schema)]

transform(sims, schema) ==
  [n \in 1..Len(sims) |-> transformSingle(sims[n], schema)]

(***************************************************************************)
(* normalizeOutput once every validate promise has settled: validate turns *)
(* a rejection of the adapter into false, and one false makes              *)
(* normalizeOutput throw; otherwise it asks for the schema definition.     *)
(***************************************************************************)
AllValid(validations) == \A n \in 1..Len(validations) : validations[n] = "true"

AfterValidation(running) ==
  IF \E n \in 1..Len(running.validations) : running.validations[n] = "pending"
  THEN /\ call' = running
       /\ UNCHANGED ret
  ELSE IF AllValid(running.validations)
       THEN /\ call' = [running EXCEPT !.pc = "getSchemaDefinition"]
            /\ UNCHANGED ret
       ELSE /\ call' = [running EXCEPT !.pc = "done"]
            /\ ret' = Throw(ErrSchemaValidation(running.targetSchema))

NormalizeOutput ==
  /\ Idle
  /\ \E sims \in SimulationResultLists, schemaId \in SchemaIds :
       AfterValidation([op |-> "normalizeOutput", pc |-> "validate", results |-> sims,
                        schemaId |-> schemaId, targetSchema |-> TargetSchema(schemaId),
                        validations |-> [n \in 1..Len(sims) |-> "pending"],
                        definition |-> "pending"])
  /\ UNCHANGED <<results, coordVars>>

ValidateSettles ==
  /\ call.op = "normalizeOutput"
  /\ call.pc = "validate"
  /\ \E n \in 1..Len(call.validations), outcome \in ValidateOutcomes :
       /\ call.validations[n] = "pending"
       /\ AfterValidation([call EXCEPT !.validations[n] = outcome])
  /\ UNCHANGED <<results, coordVars>>

GetSchemaDefinitionSettles ==
  /\ call.op = "normalizeOutput"
  /\ call.pc = "getSchemaDefinition"
  /\ \/ \E schema \in SchemaDefinitions(call.targetSchema) :
          /\ call' = [call EXCEPT !.pc = "done", !.definition = "resolved"]
          /\ ret' = Return([normalizedResults |-> transform(call.results, schema),
                            schema |-> call.targetSchema])
     \/ /\ call' = [call EXCEPT !.pc = "done", !.definition = "rejected"]
        /\ ret' = Throw(SchemaError)
  /\ UNCHANGED <<results, coordVars>>

InitNorm ==
  /\ results = << >>
  /\ InitCall

NextNorm ==
  \/ NormalizeOutput
  \/ ValidateSettles
  \/ GetSchemaDefinitionSettles

SpecNorm == InitNorm /\ [][NextNorm]_vars

NormalizeDone == call.op = "normalizeOutput" /\ call.pc = "done"

OnePerInput(response, sims) ==
  /\ Len(response.normalizedResults) = Len(sims)
  /\ \A n \in 1..Len(sims) :
       /\ response.normalizedResults[n].modelId = sims[n].modelId
       /\ response.normalizedResults[n].scenarioId = sims[n].scenarioId

(***************************************************************************)
(* C29 as stated: when the adapter has answered false or has rejected for  *)
(* some result normalizeOutput throws; otherwise it returns one normalized *)
(* result per input result, in input order, with the modelId and the       *)
(* scenarioId of its input, and as schema the given schemaId or            *)
(* 'default-v1' when none is given.                                        *)
(***************************************************************************)
C29_AllOrNothing_AsStated ==
  NormalizeDone =>
    IF ~AllValid(call.validations)
    THEN ret.threw
    ELSE /\ ~ret.threw
         /\ OnePerInput(ret.value, call.results)
         /\ ret.value.schema = IF call.schemaId = Undefined THEN DEFAULT_SCHEMA
                               ELSE call.schemaId

(***************************************************************************)
(* C29 amended: normalizeOutput throws when the adapter has answered false *)
(* or has rejected for some result, and also when every result is valid    *)
(* and getSchemaDefinition rejects; otherwise it returns one normalized    *)
(* result per input result, in input order, with the modelId and the       *)
(* scenarioId of its input, and as schema the given schemaId or            *)
(* 'default-v1' when none or the empty string is given.                    *)
(***************************************************************************)
C29_AllOrNothing ==
  NormalizeDone =>
    IF ~AllValid(call.validations) \/ call.definition = "rejected"
    THEN ret.threw
    ELSE /\ ~ret.threw
         /\ OnePerInput(ret.value, call.results)
         /\ ret.value.schema = IF call.schemaId \in {Undefined, ""} THEN DEFAULT_SCHEMA
                               ELSE call.schemaId

C29_Witness ==
  /\ NormalizeDone
  /\ ~ret.threw
  /\ Len(call.results) = 2
  /\ call.results[1].modelId # call.results[2].modelId
  /\ call.schemaId = "custom-v2"
  /\ ret.value.normalizedResults[1].metrics # << >>

====
